---- MODULE Spec2Model ----
(***************************************************************************)
(* VQA training pipeline: vocabulary and label construction (utils.py),    *)
(* batch sorting (utils.py), the validation evaluator and the training     *)
(* loop (main.py).                                                         *)
(*                                                                         *)
(* Python dicts are modelled as TLA+ functions (key -> value); where the   *)
(* code depends on a dict's insertion order the keys are kept in a         *)
(* sequence next to the function.  A question is represented by the token  *)
(* sequence the external tokenizer yields for it.                          *)
(***************************************************************************)
EXTENDS Integers, Sequences, FiniteSets, TLC

\* ------------------------------------------------------------------ bounds
MaxRecords == 3
MaxQLen == 2
MaxMinWordCount == 2
MaxAnsRecords == 4
MaxK == 3
MaxBatch == 3
MaxLen == 3
MaxLabel == 1
MaxBatchSize == 2
MaxValSize == 4
MaxValBatches == 3
MaxBatchLoss == 1
MaxEpochs == 2
MaxSteps == 2
MaxLogInterval == 2
MaxSaveInterval == 2
MaxValLen == 2
MaxArgValSize == 2
MaxSeqLen == 3
MaxPadLen == 3
MaxTokenId == 2
MaxNumCls == 3

\* Question tokens of the modelled corpora: two ordinary words and one token
\* spelt like a reserved helper token.
Tokens == {"a", "b", "s"}

\* Answer strings of the modelled corpora.
Answers == {"yes", "no", "UNKNOWN"}

VARIABLES
    data,              \* corpus: sequence of records [ques |-> tokens, ans |-> string]
    min_word_count,    \* build_vocab parameter
    K,                 \* build_answer parameter
    prep_pc,           \* "idle" | "input" | "vocab_built" | "answer_built"
    word2idx, idx2word, max_seq_length,   \* build_vocab results
    label2idx, idx2label                  \* build_answer results

prepVars == <<data, min_word_count, K, prep_pc, word2idx, idx2word,
              max_seq_length, label2idx, idx2label>>

VARIABLES
    batch_data,        \* the mini-batch handed to sort_batch (parallel arrays)
    image, question, label, ques_len,   \* the caller's names after sort_batch
    sort_pc            \* "idle" | "loaded" | "sorted"

sortVars == <<batch_data, image, question, label, ques_len, sort_pc>>

VARIABLES
    batch_size,        \* dataloader.batch_size
    v_size,            \* compute_validation_metrics parameter `size`
    v_stream,          \* number of mini-batches the dataloader yields
    v_pc,              \* "idle" | "call" | "loop" | "totals" | "returned" | "raised"
    v_error,           \* exception that left compute_validation_metrics, or "none"
    model_mode,        \* "train" | "eval"
    i, n_iters, num_correct, loss,      \* locals of compute_validation_metrics
    batches_evaluated, \* number of forward passes of the current call
    metrics            \* returned dict, accuracy and loss as <<numerator, denominator>>

valVars == <<batch_size, v_size, v_stream, v_pc, v_error, model_mode, i, n_iters,
             num_correct, loss, batches_evaluated, metrics>>

VARIABLES
    n_epochs, steps_per_epoch, log_interval, save_interval,   \* run configuration
    val_file,          \* TRUE when a validation split was given
    val_size,          \* args.val_size
    val_len,           \* len(val_dataset)
    epoch,             \* loop variable of `for epoch in range(n_epochs)`
    batch_no,          \* mini-batches drawn from train_loader in this epoch
    curr_step,         \* step counter
    t_pc,              \* position of main() in the training loop
    t_error,           \* exception that ended main(), or "none"
    checkpoints,       \* step tags of the model files written
    logs_closed,       \* writer.close() and log_file.close() were called
    validation_metrics, \* last metrics returned to main()
    optimizer_steps    \* number of optimizer.step() calls so far

trainVars == <<n_epochs, steps_per_epoch, log_interval, save_interval, val_file,
               val_size, val_len, epoch, batch_no, curr_step, t_pc, t_error,
               checkpoints, logs_closed, validation_metrics, optimizer_steps>>

VARIABLES
    seq, max_len,      \* pad_sequences arguments
    padded,            \* pad_sequences result
    pad_pc             \* "idle" | "input" | "padded"

padVars == <<seq, max_len, padded, pad_pc>>

VARIABLES
    num_cls,           \* --num_cls of the train stage
    num_classes        \* class count the model is constructed with (0: not yet)

modelVars == <<num_cls, num_classes>>

vars == <<prepVars, sortVars, valVars, trainVars, padVars, modelVars>>

\* ----------------------------------------------------------------- helpers
Range(s) == {s[pos] : pos \in 1..Len(s)}

SeqsUpTo(S, n) == UNION {[1..m -> S] : m \in 0..n}

EmptyMap == [x \in {} |-> 0]

\* ------------------------------------------------------- utils.build_vocab
\* The tokenizer is an external collaborator; a question is held as the
\* token sequence it produces.  (build_vocab passes only the question; the
\* tokenizer object `nlp` of the signature is not modelled.)
preprocess_text(text) == text

\* Inner loop of build_vocab: a word seen for the first time is entered with
\* count 0, every later occurrence adds one.
RECURSIVE add_words(_, _)
add_words(wds, wc) ==
    IF wds = <<>> THEN wc
    ELSE LET word == Head(wds)
             nxt == IF word \notin DOMAIN wc.cnt
                    THEN [keys |-> Append(wc.keys, word), cnt |-> (word :> 0) @@ wc.cnt]
                    ELSE [keys |-> wc.keys, cnt |-> [wc.cnt EXCEPT ![word] = @ + 1]]
         IN add_words(Tail(wds), nxt)

\* Outer loop of build_vocab over the samples.
RECURSIVE word_count(_, _)
word_count(samples, wc) ==
    IF samples = <<>> THEN wc
    ELSE word_count(Tail(samples), add_words(preprocess_text(Head(samples).ques), wc))

RECURSIVE max_sequence_length(_, _)
max_sequence_length(samples, m) ==
    IF samples = <<>> THEN m
    ELSE LET n == Len(preprocess_text(Head(samples).ques))
         IN max_sequence_length(Tail(samples), IF n > m THEN n ELSE m)

helper_tokens == ("<PAD>" :> 0) @@ ("<UNKNOWN>" :> 1) @@ ("s" :> 2) @@ ("/s" :> 3)

num_helper_tokens == Cardinality(DOMAIN helper_tokens)

\* for word in word_list: if word_count[word] >= min_word_count: ...
RECURSIVE vocab_tokens(_, _, _, _)
vocab_tokens(word_list, cnt, mwc, vocab_idx) ==
    IF word_list = <<>> THEN EmptyMap
    ELSE LET word == Head(word_list)
         IN IF cnt[word] >= mwc
            THEN (word :> vocab_idx) @@ vocab_tokens(Tail(word_list), cnt, mwc, vocab_idx + 1)
            ELSE vocab_tokens(Tail(word_list), cnt, mwc, vocab_idx)

\* {**helper_tokens, **vocab_tokens}: the right operand wins on a shared key.
merge_dicts(left, right) == right @@ left

\* {idx: word for word, idx in word2idx.items()}
invert_dict(d) == [pos \in {d[w] : w \in DOMAIN d} |-> CHOOSE w \in DOMAIN d : d[w] = pos]

build_vocab(samples, mwc) ==
    LET wc == word_count(samples, [keys |-> <<>>, cnt |-> EmptyMap])
        w2i == merge_dicts(helper_tokens, vocab_tokens(wc.keys, wc.cnt, mwc, num_helper_tokens))
    IN [word2idx |-> w2i,
        idx2word |-> invert_dict(w2i),
        max_seq_length |-> max_sequence_length(samples, 0)]

\* ------------------------------------------------------ utils.build_answer
RECURSIVE answer_frequency(_, _)
answer_frequency(samples, af) ==
    IF samples = <<>> THEN af
    ELSE LET answer == Head(samples).ans
             nxt == IF answer \in DOMAIN af.cnt
                    THEN [keys |-> af.keys, cnt |-> [af.cnt EXCEPT ![answer] = @ + 1]]
                    ELSE [keys |-> Append(af.keys, answer), cnt |-> (answer :> 1) @@ af.cnt]
         IN answer_frequency(Tail(samples), nxt)

\* sorted(items, reverse=True, key=count): descending by count, and stable,
\* so answers of equal count keep their insertion order.
RECURSIVE insert_desc(_, _, _)
insert_desc(x, sorted, cnt) ==
    IF sorted = <<>> THEN <<x>>
    ELSE IF cnt[Head(sorted)] >= cnt[x]
         THEN <<Head(sorted)>> \o insert_desc(x, Tail(sorted), cnt)
         ELSE <<x>> \o sorted

RECURSIVE sorted_desc(_, _, _)
sorted_desc(items, acc, cnt) ==
    IF items = <<>> THEN acc
    ELSE sorted_desc(Tail(items), insert_desc(Head(items), acc, cnt), cnt)

\* items[:k] for k >= 0
take(items, k) == SubSeq(items, 1, IF k < Len(items) THEN k ELSE Len(items))

top_k_answers(samples, k) ==
    LET af == answer_frequency(samples, [keys |-> <<>>, cnt |-> EmptyMap])
    IN <<"UNKNOWN">> \o take(sorted_desc(af.keys, <<>>, af.cnt), k)

\* {answer: idx for idx, answer in enumerate(lst)}: a repeated key keeps the
\* value of its last occurrence (indices are 0-based).
enumerate_to_idx(lst) ==
    [a \in Range(lst) |-> (CHOOSE pos \in 1..Len(lst) : lst[pos] = a /\ \A j \in (pos+1)..Len(lst) : lst[j] # a) - 1]

\* {idx: answer for idx, answer in enumerate(lst)}
enumerate_to_label(lst) == [pos \in 0..(Len(lst) - 1) |-> lst[pos + 1]]

build_answer(samples, k) ==
    LET tk == top_k_answers(samples, k)
    IN [label2idx |-> enumerate_to_idx(tk), idx2label |-> enumerate_to_label(tk)]

\* ------------------------------------------------- corpus preparation runs
Questions == SeqsUpTo(Tokens, MaxQLen)

PrepIdle ==
    /\ data = <<>> /\ min_word_count = 0 /\ K = 0 /\ prep_pc = "idle"
    /\ word2idx = EmptyMap /\ idx2word = EmptyMap /\ max_seq_length = 0
    /\ label2idx = EmptyMap /\ idx2label = EmptyMap

\* Corpora for the vocabulary builder: the questions vary.
InitVocab ==
    /\ data \in SeqsUpTo([ques : Questions, ans : {"yes"}], MaxRecords)
    /\ min_word_count \in 0..MaxMinWordCount
    /\ K = 0
    /\ prep_pc = "input"
    /\ word2idx = EmptyMap /\ idx2word = EmptyMap /\ max_seq_length = 0
    /\ label2idx = EmptyMap /\ idx2label = EmptyMap

\* Corpora for the label builder: the answers vary.
InitAnswer ==
    /\ data \in SeqsUpTo([ques : {<<"a">>}, ans : Answers], MaxAnsRecords)
    /\ min_word_count = 1
    /\ K \in 0..MaxK
    /\ prep_pc = "input"
    /\ word2idx = EmptyMap /\ idx2word = EmptyMap /\ max_seq_length = 0
    /\ label2idx = EmptyMap /\ idx2label = EmptyMap

\* save_vocab, first call: word2idx, idx2word, max_seq_length = build_vocab(...)
BuildVocab ==
    /\ prep_pc = "input"
    /\ LET r == build_vocab(data, min_word_count)
       IN /\ word2idx' = r.word2idx
          /\ idx2word' = r.idx2word
          /\ max_seq_length' = r.max_seq_length
    /\ prep_pc' = "vocab_built"
    /\ UNCHANGED <<data, min_word_count, K, label2idx, idx2label>>

\* save_vocab, second call: label2idx, idx2label = build_answer(train_data, K)
BuildAnswer ==
    /\ prep_pc = "vocab_built"
    /\ LET r == build_answer(data, K)
       IN /\ label2idx' = r.label2idx
          /\ idx2label' = r.idx2label
    /\ prep_pc' = "answer_built"
    /\ UNCHANGED <<data, min_word_count, K, word2idx, idx2word, max_seq_length>>

NextPrep ==
    \/ BuildVocab /\ UNCHANGED <<sortVars, valVars, trainVars, padVars, modelVars>>
    \/ BuildAnswer /\ UNCHANGED <<sortVars, valVars, trainVars, padVars, modelVars>>

\* -------------------------------------------------------- utils.sort_batch
NoBatch == [image |-> <<>>, question |-> <<>>, label |-> <<>>, ques_len |-> <<>>]

IndexPermutations(n) == {p \in [1..n -> 1..n] : \A a, b \in 1..n : p[a] = p[b] => a = b}

\* ques_seq_lens.sort(dim=0, descending=True) returns the sorted values and an
\* index tensor; the order of equal lengths is not fixed by torch.sort, so
\* every index permutation that sorts the lengths is a possible result.
sort_indices(lens) ==
    {idx \in IndexPermutations(Len(lens)) :
        \A a, b \in 1..Len(lens) : a < b => lens[idx[a]] >= lens[idx[b]]}

\* tensor[idx]
index_select(t, idx) == [j \in 1..Len(idx) |-> t[idx[j]]]

\* sort_batch with the answers left in their arrival order.
sort_batch_answers_unpermuted(images, questions, answers, ques_seq_lens, idx) ==
    [image |-> index_select(images, idx),
     question |-> index_select(questions, idx),
     label |-> answers,
     ques_len |-> index_select(ques_seq_lens, idx)]

sort_batch(images, questions, answers, ques_seq_lens, idx) ==
    [image |-> index_select(images, idx),
     question |-> index_select(questions, idx),
     label |-> index_select(answers, idx),
     ques_len |-> index_select(ques_seq_lens, idx)]

\* An encoded question row: true_length token ids, then <PAD> (0).
QuestionRow(sample, len) == [j \in 1..MaxLen |-> IF j <= len THEN 3 + sample ELSE 0]

SortIdle ==
    /\ batch_data = NoBatch /\ sort_pc = "idle"
    /\ image = <<>> /\ question = <<>> /\ label = <<>> /\ ques_len = <<>>

InitSort ==
    /\ \E B \in 1..MaxBatch :
         \E lens \in [1..B -> 1..MaxLen], labels \in [1..B -> 0..MaxLabel] :
            batch_data = [image |-> [s \in 1..B |-> s],
                          question |-> [s \in 1..B |-> QuestionRow(s, lens[s])],
                          label |-> labels,
                          ques_len |-> lens]
    /\ sort_pc = "loaded"
    /\ image = <<>> /\ question = <<>> /\ label = <<>> /\ ques_len = <<>>

\* image, question, label, ques_len = sort_batch(image, question, label, ques_len)
SortBatch ==
    /\ sort_pc = "loaded"
    /\ \E idx \in sort_indices(batch_data.ques_len) :
         LET r == sort_batch(batch_data.image, batch_data.question,
                             batch_data.label, batch_data.ques_len, idx)
         IN /\ image' = r.image
            /\ question' = r.question
            /\ label' = r.label
            /\ ques_len' = r.ques_len
    /\ sort_pc' = "sorted"
    /\ UNCHANGED batch_data

NextSort == SortBatch /\ UNCHANGED <<prepVars, valVars, trainVars, padVars, modelVars>>

\* ----------------------------------------- main.compute_validation_metrics
NoMetrics == [accuracy |-> <<0, 1>>, loss |-> <<0, 1>>]

ValLocalsIdle ==
    /\ i = 0 /\ n_iters = 0 /\ num_correct = 0 /\ loss = 0 /\ batches_evaluated = 0

ValIdle ==
    /\ batch_size = 1 /\ v_size = 0 /\ v_stream = 0 /\ v_pc = "idle"
    /\ v_error = "none" /\ model_mode = "train" /\ metrics = NoMetrics
    /\ ValLocalsIdle

\* A direct call of the evaluator on any stream with any sample budget.
InitVal ==
    /\ batch_size \in 1..MaxBatchSize
    /\ v_size \in 0..MaxValSize
    /\ v_stream \in 0..MaxValBatches
    /\ v_pc = "call"
    /\ v_error = "none" /\ model_mode = "train" /\ metrics = NoMetrics
    /\ ValLocalsIdle

\* model.eval(); loss = 0.0; num_correct = 0; n_iters = size // batch_size
ValEnter ==
    /\ v_pc = "call"
    /\ model_mode' = "eval"
    /\ loss' = 0 /\ num_correct' = 0 /\ batches_evaluated' = 0 /\ i' = 0
    /\ n_iters' = v_size \div batch_size
    /\ v_pc' = "loop"
    /\ UNCHANGED <<batch_size, v_size, v_stream, v_error, metrics>>

\* One pass of `for i, batch in enumerate(dataloader)`: forward pass, counts
\* and loss are accumulated, and only then `if i >= n_iters: break`.
ValBatch ==
    /\ v_pc = "loop"
    /\ i < v_stream
    /\ \E correct \in 0..batch_size, batch_loss \in 0..MaxBatchLoss :
         /\ num_correct' = num_correct + correct
         /\ loss' = loss + batch_loss
    /\ batches_evaluated' = batches_evaluated + 1
    /\ IF i >= n_iters
       THEN v_pc' = "totals" /\ i' = i
       ELSE v_pc' = "loop" /\ i' = i + 1
    /\ UNCHANGED <<batch_size, v_size, v_stream, v_error, model_mode, n_iters, metrics>>

\* The dataloader is exhausted: the for loop ends.
ValExhausted ==
    /\ v_pc = "loop"
    /\ i >= v_stream
    /\ v_pc' = "totals"
    /\ UNCHANGED <<batch_size, v_size, v_stream, v_error, model_mode, i, n_iters,
                   num_correct, loss, batches_evaluated, metrics>>

\* total = n_iters * batch_size; accuracy = 100.0 * num_correct / total;
\* loss = loss / n_iters.  Dividing by total = 0 raises ZeroDivisionError.
ValTotals ==
    /\ v_pc = "totals"
    /\ LET total == n_iters * batch_size
       IN IF total = 0
          THEN /\ v_pc' = "raised"
               /\ v_error' = "ZeroDivisionError"
               /\ UNCHANGED metrics
          ELSE /\ v_pc' = "returned"
               /\ metrics' = [accuracy |-> <<100 * num_correct, total>>,
                              loss |-> <<loss, n_iters>>]
               /\ UNCHANGED v_error
    /\ UNCHANGED <<batch_size, v_size, v_stream, model_mode, i, n_iters,
                   num_correct, loss, batches_evaluated>>

NextVal ==
    \/ ValEnter /\ UNCHANGED <<prepVars, sortVars, trainVars, padVars, modelVars>>
    \/ ValBatch /\ UNCHANGED <<prepVars, sortVars, trainVars, padVars, modelVars>>
    \/ ValExhausted /\ UNCHANGED <<prepVars, sortVars, trainVars, padVars, modelVars>>
    \/ ValTotals /\ UNCHANGED <<prepVars, sortVars, trainVars, padVars, modelVars>>


\* ------------------------------------------------- main: the training loop
TrainIdle ==
    /\ n_epochs = 0 /\ steps_per_epoch = 0 /\ log_interval = 1 /\ save_interval = 1
    /\ val_file = FALSE /\ val_size = 0 /\ val_len = 0
    /\ epoch = 0 /\ batch_no = 0 /\ curr_step = 0
    /\ t_pc = "idle" /\ t_error = "none"
    /\ checkpoints = {} /\ logs_closed = FALSE /\ validation_metrics = NoMetrics
    /\ optimizer_steps = 0

\* State of main() when the epoch loop is entered: curr_step = 0, the model
\* freshly constructed (a new module is in training mode), no file written.
InitTrain ==
    /\ n_epochs \in 0..MaxEpochs
    /\ steps_per_epoch \in 0..MaxSteps
    /\ log_interval \in 1..MaxLogInterval
    /\ save_interval \in 1..MaxSaveInterval
    /\ batch_size \in 1..MaxBatchSize
    /\ val_file \in BOOLEAN
    /\ val_size \in (IF val_file THEN 0..MaxArgValSize ELSE {0})
    /\ val_len \in (IF val_file THEN 0..MaxValLen ELSE {0})
    /\ epoch = 0 /\ batch_no = 0 /\ curr_step = 0
    /\ t_pc = "epoch_head" /\ t_error = "none"
    /\ checkpoints = {} /\ logs_closed = FALSE /\ validation_metrics = NoMetrics
    /\ optimizer_steps = 0
    /\ v_size = 0 /\ v_stream = 0 /\ v_pc = "idle"
    /\ v_error = "none" /\ model_mode = "train" /\ metrics = NoMetrics
    /\ ValLocalsIdle

\* len(val_loader): the loader is built with drop_last=True.
val_loader_len == val_len \div batch_size

\* (curr_step + 1) % args.log_interval == 0 or curr_step == 1
log_condition(step, interval) == (step + 1) % interval = 0 \/ step = 1

\* (curr_step + 1) % args.save_interval == 0
save_condition(step, interval) == (step + 1) % interval = 0

\* for epoch in range(n_epochs): the next epoch starts, or the loop is over.
EpochHead ==
    /\ t_pc = "epoch_head"
    /\ IF epoch < n_epochs
       THEN t_pc' = "batch_head" /\ batch_no' = 0
       ELSE t_pc' = "close" /\ UNCHANGED batch_no
    /\ UNCHANGED <<optimizer_steps, n_epochs, steps_per_epoch, log_interval, save_interval, val_file,
                   val_size, val_len, epoch, curr_step, t_error, checkpoints,
                   logs_closed, validation_metrics>>
    /\ UNCHANGED valVars

\* One mini-batch: sort_batch, forward pass, loss, backward pass,
\* optimizer.step(); then the logging condition is evaluated.
TrainStep ==
    /\ t_pc = "batch_head"
    /\ batch_no < steps_per_epoch
    /\ batch_no' = batch_no + 1
    /\ optimizer_steps' = optimizer_steps + 1
    /\ IF log_condition(curr_step, log_interval)
       THEN IF val_file
            THEN /\ t_pc' = "log_val"
                 /\ v_pc' = "call"
                 /\ v_size' = val_size
                 /\ v_stream' = val_loader_len
            ELSE /\ t_pc' = "time_estimate"
                 /\ UNCHANGED <<v_pc, v_size, v_stream>>
       ELSE /\ t_pc' = "save"
            /\ UNCHANGED <<v_pc, v_size, v_stream>>
    /\ UNCHANGED <<n_epochs, steps_per_epoch, log_interval, save_interval, val_file,
                   val_size, val_len, epoch, curr_step, t_error, checkpoints,
                   logs_closed, validation_metrics>>
    /\ UNCHANGED <<batch_size, v_error, model_mode, i, n_iters, num_correct, loss,
                   batches_evaluated, metrics>>

\* The logging branch without the model.train() call after validation.
LogValReturn_without_train ==
    /\ t_pc = "log_val"
    /\ v_pc = "returned"
    /\ validation_metrics' = metrics
    /\ v_pc' = "idle"
    /\ t_pc' = "time_estimate"
    /\ UNCHANGED <<optimizer_steps, n_epochs, steps_per_epoch, log_interval, save_interval, val_file,
                   val_size, val_len, epoch, batch_no, curr_step, t_error,
                   checkpoints, logs_closed>>
    /\ UNCHANGED <<batch_size, v_size, v_stream, v_error, model_mode, i, n_iters, num_correct,
                   loss, batches_evaluated, metrics>>

\* compute_validation_metrics returned inside the logging branch:
\* model.train(), the metrics are logged.
LogValReturn ==
    /\ t_pc = "log_val"
    /\ v_pc = "returned"
    /\ validation_metrics' = metrics
    /\ model_mode' = "train"
    /\ v_pc' = "idle"
    /\ t_pc' = "time_estimate"
    /\ UNCHANGED <<optimizer_steps, n_epochs, steps_per_epoch, log_interval, save_interval, val_file,
                   val_size, val_len, epoch, batch_no, curr_step, t_error,
                   checkpoints, logs_closed>>
    /\ UNCHANGED <<batch_size, v_size, v_stream, v_error, i, n_iters, num_correct,
                   loss, batches_evaluated, metrics>>

\* An exception of compute_validation_metrics is caught nowhere: main() ends
\* with it, the model stays in evaluation mode and the logs stay open.
ValRaised ==
    /\ t_pc \in {"log_val", "epoch_val"}
    /\ v_pc = "raised"
    /\ t_pc' = "crashed"
    /\ t_error' = v_error
    /\ v_pc' = "idle"
    /\ UNCHANGED <<optimizer_steps, n_epochs, steps_per_epoch, log_interval, save_interval, val_file,
                   val_size, val_len, epoch, batch_no, curr_step, checkpoints,
                   logs_closed, validation_metrics>>
    /\ UNCHANGED <<batch_size, v_size, v_stream, v_error, model_mode, i, n_iters,
                   num_correct, loss, batches_evaluated, metrics>>

\* total_time = (time_elapsed / curr_step) * steps_per_epoch * n_epochs:
\* a float divided by the integer 0 raises ZeroDivisionError.
TimeEstimate ==
    /\ t_pc = "time_estimate"
    /\ IF curr_step = 0
       THEN t_pc' = "crashed" /\ t_error' = "ZeroDivisionError"
       ELSE t_pc' = "save" /\ UNCHANGED t_error
    /\ UNCHANGED <<optimizer_steps, n_epochs, steps_per_epoch, log_interval, save_interval, val_file,
                   val_size, val_len, epoch, batch_no, curr_step, checkpoints,
                   logs_closed, validation_metrics>>
    /\ UNCHANGED valVars

\* if (curr_step + 1) % args.save_interval == 0: torch.save(...)
\* curr_step += 1
SaveStep ==
    /\ t_pc = "save"
    /\ checkpoints' = IF save_condition(curr_step, save_interval)
                      THEN checkpoints \cup {curr_step + 1}
                      ELSE checkpoints
    /\ curr_step' = curr_step + 1
    /\ t_pc' = "batch_head"
    /\ UNCHANGED <<optimizer_steps, n_epochs, steps_per_epoch, log_interval, save_interval, val_file,
                   val_size, val_len, epoch, batch_no, t_error, logs_closed,
                   validation_metrics>>
    /\ UNCHANGED valVars

\* train_loader is exhausted: validation over the whole split when there is
\* one, then the next epoch.
EpochEnd ==
    /\ t_pc = "batch_head"
    /\ batch_no >= steps_per_epoch
    /\ IF val_file
       THEN /\ t_pc' = "epoch_val"
            /\ v_pc' = "call"
            /\ v_size' = val_len
            /\ v_stream' = val_loader_len
            /\ UNCHANGED epoch
       ELSE /\ t_pc' = "epoch_head"
            /\ epoch' = epoch + 1
            /\ UNCHANGED <<v_pc, v_size, v_stream>>
    /\ UNCHANGED <<optimizer_steps, n_epochs, steps_per_epoch, log_interval, save_interval, val_file,
                   val_size, val_len, batch_no, curr_step, t_error, checkpoints,
                   logs_closed, validation_metrics>>
    /\ UNCHANGED <<batch_size, v_error, model_mode, i, n_iters, num_correct, loss,
                   batches_evaluated, metrics>>

\* End-of-epoch validation returned: the metrics are logged, model.train().
EpochValReturn ==
    /\ t_pc = "epoch_val"
    /\ v_pc = "returned"
    /\ validation_metrics' = metrics
    /\ model_mode' = "train"
    /\ v_pc' = "idle"
    /\ epoch' = epoch + 1
    /\ t_pc' = "epoch_head"
    /\ UNCHANGED <<optimizer_steps, n_epochs, steps_per_epoch, log_interval, save_interval, val_file,
                   val_size, val_len, batch_no, curr_step, t_error, checkpoints,
                   logs_closed>>
    /\ UNCHANGED <<batch_size, v_size, v_stream, v_error, i, n_iters, num_correct,
                   loss, batches_evaluated, metrics>>

\* writer.close(); log_file.close()
CloseLogs ==
    /\ t_pc = "close"
    /\ logs_closed' = TRUE
    /\ t_pc' = "done"
    /\ UNCHANGED <<optimizer_steps, n_epochs, steps_per_epoch, log_interval, save_interval, val_file,
                   val_size, val_len, epoch, batch_no, curr_step, t_error,
                   checkpoints, validation_metrics>>
    /\ UNCHANGED valVars

NextTrain ==
    \/ EpochHead /\ UNCHANGED <<prepVars, sortVars, padVars, modelVars>>
    \/ TrainStep /\ UNCHANGED <<prepVars, sortVars, padVars, modelVars>>
    \/ LogValReturn /\ UNCHANGED <<prepVars, sortVars, padVars, modelVars>>
    \/ ValRaised /\ UNCHANGED <<prepVars, sortVars, padVars, modelVars>>
    \/ TimeEstimate /\ UNCHANGED <<prepVars, sortVars, padVars, modelVars>>
    \/ SaveStep /\ UNCHANGED <<prepVars, sortVars, padVars, modelVars>>
    \/ EpochEnd /\ UNCHANGED <<prepVars, sortVars, padVars, modelVars>>
    \/ EpochValReturn /\ UNCHANGED <<prepVars, sortVars, padVars, modelVars>>
    \/ CloseLogs /\ UNCHANGED <<prepVars, sortVars, padVars, modelVars>>
    \/ ValEnter /\ UNCHANGED <<prepVars, sortVars, trainVars, padVars, modelVars>>
    \/ ValBatch /\ UNCHANGED <<prepVars, sortVars, trainVars, padVars, modelVars>>
    \/ ValExhausted /\ UNCHANGED <<prepVars, sortVars, trainVars, padVars, modelVars>>
    \/ ValTotals /\ UNCHANGED <<prepVars, sortVars, trainVars, padVars, modelVars>>

\* ---------------------------------------------------- utils.pad_sequences
\* np.zeros((max_len,)): max_len entries 0, then the slice assignment
\* padded[:] = seq[:max_len] or padded[:len(seq)] = seq.
\* pad_sequences without the truncation of a longer sequence.
pad_sequences_untruncated(sq, mlen) ==
    IF Len(sq) > mlen
    THEN sq
    ELSE [j \in 1..mlen |-> IF j <= Len(sq) THEN sq[j] ELSE 0]

pad_sequences(sq, mlen) ==
    IF Len(sq) > mlen
    THEN [j \in 1..mlen |-> sq[j]]
    ELSE [j \in 1..mlen |-> IF j <= Len(sq) THEN sq[j] ELSE 0]

PadIdle == seq = <<>> /\ max_len = 0 /\ padded = <<>> /\ pad_pc = "idle"

\* Token-id sequences (0 is the <PAD> index itself) and target lengths.
InitPad ==
    /\ seq \in SeqsUpTo(0..MaxTokenId, MaxSeqLen)
    /\ max_len \in 0..MaxPadLen
    /\ padded = <<>>
    /\ pad_pc = "input"

PadSequences ==
    /\ pad_pc = "input"
    /\ padded' = pad_sequences(seq, max_len)
    /\ pad_pc' = "padded"
    /\ UNCHANGED <<seq, max_len>>

NextPad == PadSequences /\ UNCHANGED <<prepVars, sortVars, valVars, trainVars, modelVars>>

ModelIdle == num_cls = 2 /\ num_classes = 0

\* ------------------------------ prep stage artifact read by the train stage
\* --num_cls of main.py is parsed by int_min_two: values below 2 are refused.
MinNumCls == 2

\* Answer strings of the corpora of a whole prep-then-train run.
PipelineAnswers == {"yes", "no", "maybe"}

\* prepare_data.py with its own -K, then main.py with its own --num_cls.
InitPipeline ==
    /\ data \in SeqsUpTo([ques : {<<"a">>}, ans : PipelineAnswers], MaxAnsRecords)
    /\ min_word_count = 1
    /\ K \in 0..MaxK
    /\ prep_pc = "input"
    /\ word2idx = EmptyMap /\ idx2word = EmptyMap /\ max_seq_length = 0
    /\ label2idx = EmptyMap /\ idx2label = EmptyMap
    /\ num_cls \in MinNumCls..MaxNumCls
    /\ num_classes = 0

\* main(): load_vocab returns the saved dicts unchanged; num_classes =
\* args.num_cls + 1; model = VQANet(..., K=num_classes).
ConstructModel ==
    /\ prep_pc = "answer_built"
    /\ num_classes' = num_cls + 1
    /\ prep_pc' = "model_built"
    /\ UNCHANGED <<data, min_word_count, K, word2idx, idx2word, max_seq_length,
                   label2idx, idx2label, num_cls>>

NextPipeline ==
    \/ BuildVocab /\ UNCHANGED <<sortVars, valVars, trainVars, padVars, modelVars>>
    \/ BuildAnswer /\ UNCHANGED <<sortVars, valVars, trainVars, padVars, modelVars>>
    \/ ConstructModel /\ UNCHANGED <<sortVars, valVars, trainVars, padVars>>

\* ---------------------------------------------------------- specifications
VocabInit == InitVocab /\ SortIdle /\ ValIdle /\ TrainIdle /\ PadIdle /\ ModelIdle

SpecVocab == VocabInit /\ [][NextPrep]_vars

AnswerInit == InitAnswer /\ SortIdle /\ ValIdle /\ TrainIdle /\ PadIdle /\ ModelIdle

SpecAnswer == AnswerInit /\ [][NextPrep]_vars

SortInit == PrepIdle /\ InitSort /\ ValIdle /\ TrainIdle /\ PadIdle /\ ModelIdle

SpecSort == SortInit /\ [][NextSort]_vars

ValInit == PrepIdle /\ SortIdle /\ InitVal /\ TrainIdle /\ PadIdle /\ ModelIdle

SpecVal == ValInit /\ [][NextVal]_vars

TrainInit == PrepIdle /\ SortIdle /\ InitTrain /\ PadIdle /\ ModelIdle

SpecTrain == TrainInit /\ [][NextTrain]_vars

PadInit == PrepIdle /\ SortIdle /\ ValIdle /\ TrainIdle /\ InitPad /\ ModelIdle

SpecPad == PadInit /\ [][NextPad]_vars

PipelineInit == InitPipeline /\ SortIdle /\ ValIdle /\ TrainIdle /\ PadIdle

SpecPipeline == PipelineInit /\ [][NextPipeline]_vars

\* ------------------------------------------- properties: vocabulary builder
RECURSIVE Flat(_)
Flat(samples) == IF samples = <<>> THEN <<>> ELSE Head(samples).ques \o Flat(Tail(samples))

\* Number of occurrences of token w across all questions of the corpus.
Occurrences(w) == Cardinality({pos \in 1..Len(Flat(data)) : Flat(data)[pos] = w})

\* Position of the first occurrence of x in sequence s (0 when absent).
IndexOf(s, x) ==
    IF x \in Range(s) THEN CHOOSE pos \in 1..Len(s) : s[pos] = x /\ \A j \in 1..(pos-1) : s[j] # x
    ELSE 0

VocabBuilt == prep_pc \in {"vocab_built", "answer_built"}

OrdinaryWords == Tokens \ DOMAIN helper_tokens

\* C1: with min_word_count >= 1, a word occurring exactly min_word_count - 1
\* times is absent from word2idx and a word occurring exactly min_word_count
\* times is present (stated for the words not spelt like a helper token).
C1_ThresholdExclusion ==
    (VocabBuilt /\ min_word_count >= 1) =>
        \A w \in OrdinaryWords :
            /\ Occurrences(w) = min_word_count - 1 => w \notin DOMAIN word2idx
            /\ Occurrences(w) = min_word_count => w \in DOMAIN word2idx

\* C7: word2idx holds the four reserved tokens at indices 0..3 and every other
\* word at an index of 4 or more.
C7_ReservedBlock ==
    VocabBuilt =>
        /\ \A h \in DOMAIN helper_tokens :
              h \in DOMAIN word2idx /\ word2idx[h] = helper_tokens[h]
        /\ \A w \in DOMAIN word2idx \ DOMAIN helper_tokens : word2idx[w] >= 4

\* C10: the retained non-reserved words carry the consecutive indices 4, 5,
\* 6, ... in the order of their first occurrence in the corpus.
C10_IndexOrder ==
    VocabBuilt =>
        LET retained == (DOMAIN word2idx) \ (DOMAIN helper_tokens)
            first(w) == IndexOf(Flat(data), w)
        IN \A w \in retained :
              word2idx[w] = 4 + Cardinality({u \in retained : first(u) < first(w)})

\* ------------------------------------------------ properties: label builder
AnswerBuilt == prep_pc = "answer_built"

\* Number of records of the corpus whose answer is a.
Frequency(a) == Cardinality({pos \in 1..Len(data) : data[pos].ans = a})

DistinctAnswers == {data[pos].ans : pos \in 1..Len(data)}

\* C6: label2idx maps 'UNKNOWN' to 0 and idx2label[0] is 'UNKNOWN'.
C6_UnknownAtZero ==
    AnswerBuilt =>
        /\ "UNKNOWN" \in DOMAIN label2idx /\ label2idx["UNKNOWN"] = 0
        /\ idx2label[0] = "UNKNOWN"

\* C8: with n = min(K, number of distinct answers), label2idx is UNKNOWN at 0
\* plus n answers at indices 1..n, in non-increasing order of frequency, and
\* no answer left out is more frequent than a selected one.
C8_TopK ==
    AnswerBuilt =>
        LET d == Cardinality(DistinctAnswers)
            n == IF K < d THEN K ELSE d
            selected == {a \in DOMAIN label2idx : label2idx[a] >= 1}
        IN /\ "UNKNOWN" \in DOMAIN label2idx /\ label2idx["UNKNOWN"] = 0
           /\ Cardinality(DOMAIN label2idx) = n + 1
           /\ {label2idx[a] : a \in DOMAIN label2idx} = 0..n
           /\ selected \subseteq DistinctAnswers
           /\ \A a, b \in selected :
                 label2idx[a] < label2idx[b] => Frequency(a) >= Frequency(b)
           /\ \A a \in selected : \A b \in DistinctAnswers \ selected :
                 Frequency(b) <= Frequency(a)

\* -------------------------------------------------- properties: batch sorter
\* C9: after sort_batch the lengths are non-increasing and one index
\* permutation of the input batch yields all four output fields.
C9_SortBatch ==
    sort_pc = "sorted" =>
        LET B == Len(batch_data.ques_len)
        IN /\ Len(image) = B /\ Len(question) = B /\ Len(label) = B /\ Len(ques_len) = B
           /\ \A a, b \in 1..B : a < b => ques_len[a] >= ques_len[b]
           /\ \E p \in IndexPermutations(B) : \A j \in 1..B :
                 /\ image[j] = batch_data.image[p[j]]
                 /\ question[j] = batch_data.question[p[j]]
                 /\ label[j] = batch_data.label[p[j]]
                 /\ ques_len[j] = batch_data.ques_len[p[j]]

\* A sorted batch of three samples that arrived in increasing length order
\* with differing labels: every field had to move.
C9_Witness ==
    /\ sort_pc = "sorted"
    /\ Len(batch_data.ques_len) = 3
    /\ batch_data.ques_len[1] < batch_data.ques_len[2]
    /\ batch_data.ques_len[2] < batch_data.ques_len[3]
    /\ batch_data.label[1] # batch_data.label[3]
    /\ image = <<3, 2, 1>>

\* ----------------------------------------- properties: validation evaluator
ValFinished == v_pc \in {"returned", "raised"}

\* C2: with size >= batch_size >= 1 the returned accuracy lies in 0..100.
C2_AccuracyBound ==
    (v_pc = "returned" /\ v_size >= batch_size) =>
        /\ 0 <= metrics.accuracy[1]
        /\ metrics.accuracy[1] <= 100 * metrics.accuracy[2]

\* C3: when the stream holds at least floor(size / batch_size) batches, counts
\* and losses are accumulated from exactly floor(size / batch_size) batches,
\* the number used in the accuracy denominator and in the loss average.
C3_BatchCount ==
    (ValFinished /\ v_stream >= v_size \div batch_size) =>
        batches_evaluated = v_size \div batch_size

\* C4: with size < batch_size no batch goes through the model and the call
\* ends in an explicit, labelled error instead of a raw ZeroDivisionError.
C4_SmallBudgetHandled ==
    (ValFinished /\ v_size < batch_size) =>
        /\ batches_evaluated = 0
        /\ v_pc = "raised"
        /\ v_error # "ZeroDivisionError"

\* ------------------------------------------------ properties: training loop
\* C5: the remaining-time estimate elapsed / curr_step is never evaluated
\* with curr_step = 0.
C5_TimeEstimateGuard == ~(t_pc = "time_estimate" /\ curr_step = 0)

\* --------------------------------------------------- properties: padding
Min(a, b) == IF a < b THEN a ELSE b

\* C11: pad_sequences returns exactly max_len entries: the first
\* min(len(seq), max_len) entries of seq in order, then only 0.
C11_PadTruncate ==
    pad_pc = "padded" =>
        /\ Len(padded) = max_len
        /\ \A j \in 1..Min(Len(seq), max_len) : padded[j] = seq[j]
        /\ \A j \in (Min(Len(seq), max_len) + 1)..max_len : padded[j] = 0

\* A sequence of non-pad ids shorter than max_len was padded.
C11_WitnessPad ==
    /\ pad_pc = "padded"
    /\ Len(seq) = 2 /\ max_len = 3
    /\ seq[1] # 0 /\ seq[2] # 0
    /\ padded = <<seq[1], seq[2], 0>>

\* ------------------------------------- properties: label order independence
\* The corpus with its records rearranged by the index permutation p.
Reordered(p) == [j \in 1..Len(data) |-> data[p[j]]]

\* C12: a corpus holding the same records in another order yields the same
\* label2idx: ties in frequency are not decided by the order of the records.
C12_OrderIndependent ==
    AnswerBuilt =>
        \A p \in IndexPermutations(Len(data)) :
            build_answer(Reordered(p), K).label2idx = label2idx

\* ------------------------------------------------ properties: model mode
\* The next thing main() does is a training step.
TrainStepNext == t_pc = "batch_head" /\ batch_no < steps_per_epoch

\* C13: every training step runs in training mode; a validation pass runs
\* in evaluation mode, and once it has returned to main() the model is back
\* in training mode before anything else happens, so before the next step.
C13_TrainingMode ==
    /\ TrainStepNext => model_mode = "train"
    /\ v_pc \in {"loop", "totals", "returned"} => model_mode = "eval"
    /\ t_pc \in {"epoch_head", "batch_head", "time_estimate", "save", "close", "done"}
          => model_mode = "train"

\* A training step is about to run after a validation pass that sent
\* batches through the model has returned.
C13_Witness ==
    /\ TrainStepNext
    /\ optimizer_steps >= 1
    /\ v_pc = "idle" /\ batches_evaluated >= 1
    /\ model_mode = "train"

\* ------------------------------------------- properties: checkpoint schedule
\* Step tags whose optimizer update is done and which save_interval divides.
DueCheckpoints == {st \in 1..optimizer_steps : st % save_interval = 0}

\* main() is between two mini-batches, or its run is over.
StepSettled == t_pc \in {"batch_head", "epoch_val", "epoch_head", "close", "done", "crashed"}

\* C14: a checkpoint tagged s exists exactly when the s-th optimizer update
\* (counted across epochs) is done and save_interval divides s: none is
\* written early or at another step, and each due one is on disk before the
\* next mini-batch is drawn and when the run is over.
C14_CheckpointSchedule ==
    /\ checkpoints \subseteq DueCheckpoints
    /\ StepSettled => checkpoints = DueCheckpoints

\* ---------------------------------------------------- properties: termination
\* C15: no run ends before the terminal state, and in the terminal state the
\* logs are closed after exactly n_epochs * steps_per_epoch steps, the step
\* counter having advanced by one per mini-batch.
C15_Termination ==
    /\ t_pc # "crashed"
    /\ t_pc = "done" =>
          /\ logs_closed
          /\ curr_step = n_epochs * steps_per_epoch
          /\ optimizer_steps = curr_step

\* ------------------------------------------------ properties: class count
\* C16: every index of the label2idx read by the train stage is below the
\* class count num_cls + 1 the model is constructed with.
C16_LabelsFitClasses ==
    prep_pc = "model_built" =>
        \A a \in DOMAIN label2idx : label2idx[a] < num_classes

====
